---- MODULE Spec2Model ----
(***************************************************************************)
(* arveldaja-proxy: the capture -> approval -> execution pipeline.         *)
(*                                                                         *)
(* The store is the two SQLite tables of src/src/db/index.ts.  Every       *)
(* SQL statement is one atomic step; a request handler is a chain of such  *)
(* steps separated by awaits, so the steps of concurrent handlers          *)
(* interleave.  Ids stand for the v4 UUIDs the code draws: they are        *)
(* allocated from counters and never reused, and their order is the order  *)
(* of created_at.                                                          *)
(***************************************************************************)
EXTENDS Naturals, Integers, Sequences, FiniteSets, Bags, TLC

\* ------------------------------------------------------------------ bounds
MaxChanges == 3
MaxChangesets == 2
MaxInFlight == 2
MaxRequests == 4
MaxTransactions == 2
\* seconds that pass between the capture of a Change and its signing
MaxClock == 2

\* ------------------------------------------------------------- vocabulary
NULL == "null"
NoId == 0
ChangeIds == 1..MaxChanges
ChangesetIds == 1..MaxChangesets

Methods == {"GET", "POST", "PUT", "PATCH", "DELETE"}
\* req.method in either case, as a client may write it
Spellings == Methods \cup {"get", "post"}
WRITE_METHODS == {"POST", "PATCH", "PUT", "DELETE"}

\* What the downstream API can do with one request: a success status with a
\* JSON body, a non-success status, or a success status whose body is not JSON
\* (response.json() then throws).
Outcomes == {"ok", "httpError", "notJson"}
NoCredentials == "noCredentials"
Reasons == {NULL, "reason"}

\* the answers of the handlers: HTTP status and message
NoResponse == "-"
Captured == "202 Change captured and pending approval"
CaptureFailed == "500 Failed to capture change for approval"
Forwarded == "200 forwarded"
ForwardFailed == "500 Failed to forward request"
Proposed == "Change proposed and captured for human approval"
ProposalInvalid == "Error: endpoint and method are required"
BodyRequired == "Error: body is required for POST, PUT, and PATCH methods"
ProposalFailed == "Error: constraint failed"
ChangeNotFound == "404 Change not found"
ChangeConflict == "400 Change is already resolved"
ChangeApproved == "200 Change approved and executed"
ApproveFailed == "500 Failed to approve change"
ChangeRejected == "200 Change rejected"
ChangeDeleted == "200 Change deleted"
NameRequired == "400 Changeset name is required"
ChangesetCreated == "201 Changeset created"
ChangesetNotFound == "404 Changeset not found"
ChangesetConflict == "400 Changeset is already resolved"
AllChangesApproved == "200 All changes approved and executed"
SomeChangesFailed == "200 Some changes failed"
ChangesetRejected == "200 Changeset rejected"
ChangeIdsRequired == "400 changeIds array is required"
TargetNotPending == "400 Cannot add changes to a non-pending changeset"
ChangesAdded == "200 Added changes to changeset"
AddChangesFailed == "500 Failed to add changes to changeset"
ChangesetDeleted == "200 Changeset deleted"

VARIABLES
  changes,      \* table pending_changes: id -> row
  changesets,   \* table changesets: id -> row
  nextChange,   \* the next fresh Change id
  nextChangeset,\* the next fresh Changeset id
  handlers,     \* bag of the request handlers that are between two awaits
  sent,         \* per Change id: downstream requests issued by executeChange
  credentials,  \* process.env holds API_KEY_ID, API_KEY_PUBLIC, API_KEY_PASSWORD
  resp,         \* the answer the step just taken sent to its caller, if any
  requests,     \* number of requests received so far
  exec          \* one call of executeChange followed statement by statement

vars == <<changes, changesets, nextChange, nextChangeset, handlers, sent,
          credentials, resp, requests, exec>>

store == <<changes, changesets>>

\* ------------------------------------------------------------ pure helpers
isWriteOperationWithoutDelete(method) == method \in {"POST", "PATCH", "PUT"}

isWriteOperationCaseSensitive(method) == method \in WRITE_METHODS

\* method.toUpperCase() of the methods in use
toUpperCase(method) ==
  CASE method = "get" -> "GET"
    [] method = "post" -> "POST"
    [] OTHER -> method

\* WRITE_METHODS.includes(method.toUpperCase())
isWriteOperation(method) == toUpperCase(method) \in WRITE_METHODS

RECURSIVE SortedSeq(_)
SortedSeq(S) ==
  IF S = {} THEN <<>>
  ELSE LET m == CHOOSE x \in S : \A y \in S : x <= y
       IN  <<m>> \o SortedSeq(S \ {m})

SeqSet(s) == {s[k] : k \in 1..Len(s)}

\* A handler between two awaits.  One record shape for all kinds:
\*   id      the Change (approve, reject) or Changeset (all others) it names
\*   members the Change ids it works through, in order
\*   i       index in members of the Change in hand
\*   row     the changeset status it read, or the outcome of executeChange
\*   flag    hasErrors (changeset approve)
\*   reason  req.body.reason
Handler(kind, pc, id, members, i, row, flag, reason) ==
  [kind |-> kind, pc |-> pc, id |-> id, members |-> members, i |-> i,
   row |-> row, flag |-> flag, reason |-> reason]

InFlight == BagToSet(handlers)
Start(h) == handlers (+) SetToBag({h})
Finish(h) == handlers (-) SetToBag({h})
Continue(h, h2) == (handlers (-) SetToBag({h})) (+) SetToBag({h2})
\* a request is taken in while the bounds leave room for it
CanAccept == requests < MaxRequests
CanStart == CanAccept /\ BagCardinality(handlers) < MaxInFlight

\* --------------------------------------------------------------- the store
PendingRow(csid) ==
  [changesetId |-> csid, status |-> "pending", response |-> NULL,
   error |-> NULL, writes |-> 0]

ChangesetRow == [status |-> "pending", writes |-> 0]

ForeignKeysOff(csid) == TRUE

\* FOREIGN KEY (changeset_id) REFERENCES changesets(id), PRAGMA foreign_keys = ON
ForeignKeyHolds(csid) == csid \in DOMAIN changesets

createPendingChangeUnchecked(id, csid) == changes @@ (id :> PendingRow(csid))

\* INSERT INTO pending_changes: rejected by the foreign key when the changeset
\* row is missing.
createPendingChange(id, csid) ==
  IF ForeignKeyHolds(csid) THEN changes @@ (id :> PendingRow(csid)) ELSE changes

createChangeset(id) == changesets @@ (id :> ChangesetRow)

updateKeepingUnsetColumns(id, status, response, error) ==
  IF id \in DOMAIN changes
  THEN [changes EXCEPT ![id] = [@ EXCEPT !.status = status,
                                         !.response = IF response = NULL THEN @ ELSE response,
                                         !.error = IF error = NULL THEN @ ELSE error,
                                         !.writes = @ + 1]]
  ELSE changes

\* UPDATE pending_changes SET status, resolved_at, resolved_by, response, error
\* WHERE id = ?  -- whatever the row's status is; no row, no effect.
\* writes counts the updates of the row (each one sets resolved_at anew).
updatePendingChangeStatus(id, status, response, error) ==
  IF id \in DOMAIN changes
  THEN [changes EXCEPT ![id] = [@ EXCEPT !.status = status,
                                         !.response = response,
                                         !.error = error,
                                         !.writes = @ + 1]]
  ELSE changes

\* UPDATE changesets SET status, resolved_at, resolved_by WHERE id = ?
updateChangesetStatus(id, status) ==
  IF id \in DOMAIN changesets
  THEN [changesets EXCEPT ![id] = [@ EXCEPT !.status = status, !.writes = @ + 1]]
  ELSE changesets

\* DELETE FROM pending_changes WHERE id = ?
deletePendingChange(id) == [c \in DOMAIN changes \ {id} |-> changes[c]]

NoCascade(csid) == changes

\* DELETE FROM changesets WHERE id = ?  with ON DELETE CASCADE on the members
CascadeDelete(csid) ==
  [c \in {x \in DOMAIN changes : changes[x].changesetId # csid} |-> changes[c]]

deleteChangeset(csid) == [s \in DOMAIN changesets \ {csid} |-> changesets[s]]

\* UPDATE pending_changes SET changeset_id = ? WHERE id IN (...): the statement
\* fails as a whole when a row would point at a missing changeset.
MoveFails(ids, csid) == (ids \cap DOMAIN changes) # {} /\ ~ForeignKeyHolds(csid)

moveChangesToChangeset(ids, csid) ==
  [c \in DOMAIN changes |->
     IF c \in ids THEN [changes[c] EXCEPT !.changesetId = csid] ELSE changes[c]]

\* SELECT * FROM pending_changes WHERE changeset_id = ? ORDER BY created_at ASC
MembersOf(csid) == SortedSeq({c \in DOMAIN changes : changes[c].changesetId = csid})

\* ORDER BY created_at DESC
PendingMembersNewestFirst(csid) ==
  LET s == SortedSeq({c \in DOMAIN changes :
                        changes[c].changesetId = csid /\ changes[c].status = "pending"})
  IN  [k \in 1..Len(s) |-> s[Len(s) + 1 - k]]

\* the members the loops act on: those whose status in the snapshot is pending
PendingMembersOf(csid) ==
  SortedSeq({c \in DOMAIN changes :
               changes[c].changesetId = csid /\ changes[c].status = "pending"})

\* ------------------------------------------------ bodies and JSON values
\* A key of a JSON object that may be missing is a sequence of length 0
\* (undefined) or 1 (its value).
Absent == <<>>
Some(v) == <<v>>

\* what JavaScript takes for true in a condition: a value that is there and
\* is not the empty string (every array is truthy)
Truthy(v) == v # Absent /\ v[1] # ""

NaN == "NaN"
Amounts == {"12.50", "125,50", "abc"}

\* parseFloat and parseInt of the strings in use; JSON.stringify writes NaN as
\* null
\* (both read the longest prefix that is a number)
parseFloat(x) ==
  CASE x = "12.50" -> "12.5"
    [] x = "125,50" -> "125"
    [] x \in {"1000", "2000"} -> x
    [] OTHER -> NaN
parseInt(x) ==
  CASE x = "12.50" -> "12"
    [] x = "125,50" -> "125"
    [] x \in {"1000", "2000"} -> x
    [] OTHER -> NaN
stringifyNumber(n) == IF n = NaN THEN "null" ELSE n

\* one line of the simplified format
Transactions ==
  [debit_account : {Absent, Some("1000")},
   credit_account : {Absent, Some("2000")},
   amount : Amounts]
TransactionLists == UNION {[1..n -> Transactions] : n \in 0..MaxTransactions}

\* one line of the API format, as JSON.stringify writes it
Posting(account, type, amount) ==
  [accounts_id |-> account, type |-> type, amount |-> amount,
   base_amount |-> amount, cl_currencies_id |-> "EUR", is_deleted |-> FALSE]
NativePostings == <<Posting("3000", "D", "5"), Posting("4000", "C", "5")>>

Payloads ==
  [transactions : {Absent} \cup {Some(t) : t \in TransactionLists},
   postings : {Absent, Some(NativePostings)},
   title : {Absent, Some(""), Some("T")},
   description : {Absent, Some(""), Some("D")}]
EmptyPayload ==
  [transactions |-> Absent, postings |-> Absent, title |-> Absent,
   description |-> Absent]

\* change.body: null, a text that is not JSON, or the text of a JSON object
NoBody == [kind |-> "none", json |-> EmptyPayload]
Unparseable == [kind |-> "text", json |-> EmptyPayload]
Json(payload) == [kind |-> "json", json |-> payload]
Bodies == {NoBody, Unparseable} \cup {Json(q) : q \in Payloads}

Paths == {"/proxy/v1/journals", "/proxy/v1/invoices"}
IsJournalPathAlways(path) == TRUE

\* change.path.includes('/journals')
IsJournalPath(path) == path = "/proxy/v1/journals"

\* the second in which the Change was captured, and the seconds after it
CaptureTime == 0
Clock == CaptureTime..MaxClock

\* change.headers: the x-auth-querytime and x-auth-key of the captured request,
\* when its client sent them
NoAuthHeaders == [querytime |-> Absent, key |-> Absent]
ClientAuthHeaders ==
  [querytime |-> Some(CaptureTime),
   key |-> Some(<<"clientKeyPublic", <<"signature of the client">>>>)]
StoredHeaders == {NoAuthHeaders, ClientAuthHeaders}

\* apiPath and signPath of the paths in use: /proxy/v1/xxx -> /v1/xxx
signPathOf(path) ==
  CASE path = "/proxy/v1/journals" -> "/v1/journals"
    [] path = "/proxy/v1/invoices" -> "/v1/invoices"
    [] OTHER -> path

\* createHmac('sha384', apiKeyPassword).update(payload).digest('base64')
Hmac(payload) == <<"hmac-sha384", "apiKeyPassword", payload>>

signRequestAtCaptureTime(path, timestamp) ==
  [querytime |-> CaptureTime,
   key |-> <<"apiKeyPublic", Hmac(<<"apiKeyId", CaptureTime, path>>)>>]

\* signRequest: the headers for the timestamp that getUtcTimestamp() returned
signRequest(path, timestamp) ==
  [querytime |-> timestamp,
   key |-> <<"apiKeyPublic", Hmac(<<"apiKeyId", timestamp, path>>)>>]

\* headers: {'Content-Type': 'application/json', ...authHeaders}
fetchHeaders(authHeaders) ==
  [contentType |-> "application/json",
   querytime |-> authHeaders.querytime,
   key |-> authHeaders.key]

\* no call of executeChange is followed
Idle ==
  [path |-> "-", body |-> NoBody, pc |-> "idle", requestBody |-> NoBody,
   outcome |-> NULL, headers |-> NoAuthHeaders, now |-> CaptureTime,
   authHeaders |-> NULL, request |-> NULL]

\* -------------------------------------------------------------------- Init
Init ==
  /\ changes = <<>>
  /\ changesets = <<>>
  /\ nextChange = 1
  /\ nextChangeset = 1
  /\ handlers = EmptyBag
  /\ sent = [c \in ChangeIds |-> 0]
  /\ credentials \in BOOLEAN
  /\ resp = NoResponse
  /\ requests = 0
  /\ exec = Idle


\* --------------------------------------------------------------- executor
\* executeChange up to its first await on the network: it throws at once when
\* the credentials are missing, otherwise it goes on to sign and fetch.
executeChange(h) ==
  IF credentials THEN [h EXCEPT !.pc = "issue", !.row = NULL]
  ELSE [h EXCEPT !.pc = "write", !.row = NoCredentials]

\* the value executeChange returns (ok) or the message of what it throws
Succeeded(outcome) == outcome = "ok"
ErrorMessage(outcome) == outcome

ResolvedErrorDropped(outcome) == NULL

\* the terminal status and the response/error columns an approval writes
ResolvedStatus(outcome) == IF Succeeded(outcome) THEN "approved" ELSE "rejected"
ResolvedResponse(outcome) == IF Succeeded(outcome) THEN "json" ELSE NULL
ResolvedError(outcome) == IF Succeeded(outcome) THEN NULL ELSE ErrorMessage(outcome)

\* ------------------------------------------------------- proxy: /proxy/*
\* ids a client can name: those handed out so far, and one that never existed
KnownChanges == (1..(nextChange - 1)) \cup {NoId}
KnownChangesets == (1..(nextChangeset - 1)) \cup {NoId}

Creating == {h \in InFlight : h.kind \in {"capture", "propose"}}
CreatingCount ==
  LET n[S \in SUBSET Creating] ==
        IF S = {} THEN 0
        ELSE LET h == CHOOSE x \in S : TRUE
             IN  CopiesIn(h, handlers) + n[S \ {h}]
  IN  n[Creating]

\* room for one more Changeset and one more Change under the bounds
RoomToCreate ==
  /\ nextChangeset <= MaxChangesets
  /\ nextChange + CreatingCount <= MaxChanges

\* captureMiddleware, no x-changeset-id header: the auto-created changeset is
\* inserted first; the change follows in the callback.
CaptureAuto(method) ==
  /\ isWriteOperation(method)
  /\ CanStart /\ RoomToCreate
  /\ changesets' = createChangeset(nextChangeset)
  /\ nextChangeset' = nextChangeset + 1
  /\ handlers' = Start(Handler("capture", "change", nextChangeset, <<>>, 1, NULL, FALSE, NULL))
  /\ resp' = NoResponse
  /\ UNCHANGED <<changes, nextChange, sent, credentials, exec>>
  /\ requests' = requests + 1

\* captureMiddleware with an x-changeset-id header: one INSERT.
CaptureRef(method, csid) ==
  /\ CanAccept
  /\ isWriteOperation(method)
  /\ nextChange + CreatingCount <= MaxChanges
  /\ changes' = createPendingChange(nextChange, csid)
  /\ nextChange' = IF ForeignKeyHolds(csid) THEN nextChange + 1 ELSE nextChange
  /\ resp' = IF ForeignKeyHolds(csid) THEN Captured ELSE CaptureFailed
  /\ UNCHANGED <<changesets, nextChangeset, handlers, sent, credentials, exec>>
  /\ requests' = requests + 1

\* a request that is no write goes on to forwardReadRequest
ProxyForward(method) ==
  /\ ~isWriteOperation(method)
  /\ CanStart
  /\ IF credentials
     THEN /\ handlers' = Start(Handler("forward", "await", NoId, <<>>, 1, method, FALSE, NULL))
          /\ resp' = NoResponse
     ELSE /\ handlers' = handlers
          /\ resp' = ForwardFailed
  /\ UNCHANGED <<changes, changesets, nextChange, nextChangeset, sent, credentials, exec>>
  /\ requests' = requests + 1

ForwardDone(h, outcome) ==
  /\ h.kind = "forward"
  /\ handlers' = Finish(h)
  /\ resp' = IF Succeeded(outcome) THEN Forwarded ELSE ForwardFailed
  /\ UNCHANGED <<changes, changesets, nextChange, nextChangeset, sent, credentials, requests, exec>>

proposalErrorWithoutBodyRule(hasEndpoint, method, hasBody) ==
  IF ~hasEndpoint \/ method = NULL THEN ProposalInvalid ELSE NULL

\* handleProposeChange: the two checks of the arguments; NULL when they pass
proposalError(hasEndpoint, method, hasBody) ==
  IF ~hasEndpoint \/ method = NULL THEN ProposalInvalid
  ELSE IF method \in {"POST", "PUT", "PATCH"} /\ ~hasBody THEN BodyRequired
  ELSE NULL

\* what the checks make of all the arguments a client can send
ProposalErrors ==
  {proposalError(hasEndpoint, m, hasBody) :
     hasEndpoint \in BOOLEAN, m \in Methods \cup {NULL}, hasBody \in BOOLEAN}

\* propose_change of the MCP server: validation, then the same two inserts
ProposeChange(error) ==
  /\ CanStart
  /\ IF error # NULL
     THEN /\ resp' = error
          /\ UNCHANGED <<changesets, nextChangeset, handlers>>
     ELSE /\ RoomToCreate
          /\ changesets' = createChangeset(nextChangeset)
          /\ nextChangeset' = nextChangeset + 1
          /\ handlers' = Start(Handler("propose", "change", nextChangeset, <<>>, 1, NULL, FALSE, NULL))
          /\ resp' = NoResponse
  /\ UNCHANGED <<changes, nextChange, sent, credentials, exec>>
  /\ requests' = requests + 1

\* the second insert of a capture or a proposal
doCreateChange(h) ==
  /\ h.kind \in {"capture", "propose"}
  /\ changes' = createPendingChange(nextChange, h.id)
  /\ nextChange' = IF ForeignKeyHolds(h.id) THEN nextChange + 1 ELSE nextChange
  /\ handlers' = Finish(h)
  /\ resp' = IF h.kind = "capture"
              THEN (IF ForeignKeyHolds(h.id) THEN Captured ELSE CaptureFailed)
              ELSE (IF ForeignKeyHolds(h.id) THEN Proposed ELSE ProposalFailed)
  /\ UNCHANGED <<changesets, nextChangeset, sent, credentials, requests, exec>>

\* the second insert of a capture or a proposal, when the statement itself
\* fails (SQLITE_BUSY while the other process writes, an I/O error): the
\* promise rejects and the handler answers with the error; nothing undoes the
\* insert of the changeset
doCreateChangeFails(h) ==
  /\ h.kind \in {"capture", "propose"}
  /\ handlers' = Finish(h)
  /\ resp' = IF h.kind = "capture" THEN CaptureFailed ELSE ProposalFailed
  /\ UNCHANGED <<changes, changesets, nextChange, nextChangeset, sent, credentials, requests, exec>>


\* ------------------------------------------------- routes/api.ts: changes
IsApproved(id) == changes[id].status = "approved"

\* change.status !== 'pending'
IsResolved(id) == changes[id].status # "pending"

\* POST /changes/:id/approve up to the call of executeChange
ApproveRead(id) ==
  /\ CanStart
  /\ IF id \notin DOMAIN changes
     THEN resp' = ChangeNotFound /\ handlers' = handlers
     ELSE IF IsResolved(id)
     THEN resp' = ChangeConflict /\ handlers' = handlers
     ELSE /\ resp' = NoResponse
          /\ handlers' = Start(executeChange(
                Handler("approve", "read", id, <<id>>, 1, NULL, FALSE, NULL)))
  /\ UNCHANGED <<changes, changesets, nextChange, nextChangeset, sent, credentials, exec>>
  /\ requests' = requests + 1

IssueMarkingTheChange(h) ==
  /\ h.kind \in {"approve", "csApprove"} /\ h.pc = "issue"
  /\ sent' = [sent EXCEPT ![h.members[h.i]] = @ + 1]
  /\ changes' = updatePendingChangeStatus(h.members[h.i], "approved", NULL, NULL)
  /\ handlers' = Continue(h, [h EXCEPT !.pc = "await"])
  /\ resp' = NoResponse
  /\ UNCHANGED <<changesets, nextChange, nextChangeset, credentials, requests, exec>>

\* executeChange: fetch(url, ...) sends the signed request
Issue(h) ==
  /\ h.kind \in {"approve", "csApprove"} /\ h.pc = "issue"
  /\ sent' = [sent EXCEPT ![h.members[h.i]] = @ + 1]
  /\ handlers' = Continue(h, [h EXCEPT !.pc = "await"])
  /\ resp' = NoResponse
  /\ UNCHANGED <<changes, changesets, nextChange, nextChangeset, credentials, requests, exec>>

\* executeChange: the downstream API answers; it returns or throws
Respond(h, outcome) ==
  /\ h.kind \in {"approve", "csApprove"} /\ h.pc = "await"
  /\ handlers' = Continue(h, [h EXCEPT !.pc = "write", !.row = outcome])
  /\ resp' = NoResponse
  /\ UNCHANGED <<changes, changesets, nextChange, nextChangeset, sent, credentials, requests, exec>>

ApproveWriteResolvingTheChangeset(h) ==
  /\ h.kind = "approve" /\ h.pc = "write"
  /\ changes' = updatePendingChangeStatus(h.id, ResolvedStatus(h.row),
                                          ResolvedResponse(h.row), ResolvedError(h.row))
  /\ changesets' = IF h.id \in DOMAIN changes
                   THEN updateChangesetStatus(changes[h.id].changesetId, ResolvedStatus(h.row))
                   ELSE changesets
  /\ handlers' = Finish(h)
  /\ resp' = IF Succeeded(h.row) THEN ChangeApproved ELSE ApproveFailed
  /\ UNCHANGED <<nextChange, nextChangeset, sent, credentials, requests, exec>>

\* POST /changes/:id/approve: the status update of the try or of the catch
ApproveWrite(h) ==
  /\ h.kind = "approve" /\ h.pc = "write"
  /\ changes' = updatePendingChangeStatus(h.id, ResolvedStatus(h.row),
                                          ResolvedResponse(h.row), ResolvedError(h.row))
  /\ handlers' = Finish(h)
  /\ resp' = IF Succeeded(h.row) THEN ChangeApproved ELSE ApproveFailed
  /\ UNCHANGED <<changesets, nextChange, nextChangeset, sent, credentials, requests, exec>>

\* POST /changes/:id/reject: the read and the status check
RejectRead(id, reason) ==
  /\ CanStart
  /\ IF id \notin DOMAIN changes
     THEN resp' = ChangeNotFound /\ handlers' = handlers
     ELSE IF IsResolved(id)
     THEN resp' = ChangeConflict /\ handlers' = handlers
     ELSE /\ resp' = NoResponse
          /\ handlers' = Start(Handler("reject", "write", id, <<id>>, 1, NULL, FALSE, reason))
  /\ UNCHANGED <<changes, changesets, nextChange, nextChangeset, sent, credentials, exec>>
  /\ requests' = requests + 1

RejectWriteThroughExecutor(h) ==
  /\ h.kind = "reject" /\ h.pc = "write"
  /\ sent' = [sent EXCEPT ![h.id] = @ + 1]
  /\ changes' = updatePendingChangeStatus(h.id, "rejected", NULL, h.reason)
  /\ handlers' = Finish(h)
  /\ resp' = ChangeRejected
  /\ UNCHANGED <<changesets, nextChange, nextChangeset, credentials, requests, exec>>

\* POST /changes/:id/reject: the status update
RejectWrite(h) ==
  /\ h.kind = "reject" /\ h.pc = "write"
  /\ changes' = updatePendingChangeStatus(h.id, "rejected", NULL, h.reason)
  /\ handlers' = Finish(h)
  /\ resp' = ChangeRejected
  /\ UNCHANGED <<changesets, nextChange, nextChangeset, sent, credentials, requests, exec>>

\* DELETE /changes/:id
DeleteChange(id) ==
  /\ CanAccept
  /\ changes' = deletePendingChange(id)
  /\ resp' = ChangeDeleted
  /\ UNCHANGED <<changesets, nextChange, nextChangeset, handlers, sent, credentials, exec>>
  /\ requests' = requests + 1


\* ------------------------------------------- routes/changesets.ts
\* POST /changesets
CreateChangeset(blank) ==
  /\ CanAccept
  /\ IF blank
     THEN resp' = NameRequired /\ UNCHANGED <<changesets, nextChangeset>>
     ELSE /\ nextChangeset <= MaxChangesets
          /\ changesets' = createChangeset(nextChangeset)
          /\ nextChangeset' = nextChangeset + 1
          /\ resp' = ChangesetCreated
  /\ UNCHANGED <<changes, nextChange, handlers, sent, credentials, exec>>
  /\ requests' = requests + 1

\* getChangesetWithChanges, first SELECT: the changeset row (approve, reject)
ChangesetRead(kind, csid, reason) ==
  /\ CanStart
  /\ IF csid \notin DOMAIN changesets
     THEN resp' = ChangesetNotFound /\ handlers' = handlers
     ELSE /\ resp' = NoResponse
          /\ handlers' = Start(Handler(kind, "changes", csid, <<>>, 1,
                                       changesets[csid].status, FALSE, reason))
  /\ UNCHANGED <<changes, changesets, nextChange, nextChangeset, sent, credentials, exec>>
  /\ requests' = requests + 1

ApproveLoopStoppingAtFailure(h) ==
  IF h.i > Len(h.members) \/ h.flag THEN [h EXCEPT !.pc = "final", !.row = NULL]
  ELSE IF credentials THEN [h EXCEPT !.pc = "issue", !.row = NULL]
  ELSE [h EXCEPT !.pc = "write", !.row = NoCredentials]

\* the for loop of the approval at the member h.i: past the last member it
\* leaves the loop, otherwise it calls executeChange
ApproveLoop(h) ==
  IF h.i > Len(h.members) THEN [h EXCEPT !.pc = "final", !.row = NULL]
  ELSE executeChange(h)

\* the for loop of the rejection
RejectLoop(h) ==
  IF h.i > Len(h.members) THEN [h EXCEPT !.pc = "final", !.row = NULL]
  ELSE [h EXCEPT !.pc = "write", !.row = NULL]

ChangesetChangesWithoutStatusCheck(h) ==
  /\ h.kind \in {"csApprove", "csReject"} /\ h.pc = "changes"
  /\ LET g == [h EXCEPT !.members = PendingMembersOf(h.id), !.i = 1]
     IN  /\ resp' = NoResponse
         /\ handlers' = Continue(h, IF h.kind = "csApprove"
                                    THEN ApproveLoop(g) ELSE RejectLoop(g))
  /\ UNCHANGED <<changes, changesets, nextChange, nextChangeset, sent, credentials, requests, exec>>

\* getChangesetWithChanges, second SELECT: the members; then the status check
\* on the row read before, and the entry into the loop
ChangesetChanges(h) ==
  /\ h.kind \in {"csApprove", "csReject"} /\ h.pc = "changes"
  /\ IF h.row # "pending"
     THEN resp' = ChangesetConflict /\ handlers' = Finish(h)
     ELSE LET g == [h EXCEPT !.members = PendingMembersOf(h.id), !.i = 1]
          IN  /\ resp' = NoResponse
              /\ handlers' = Continue(h, IF h.kind = "csApprove"
                                         THEN ApproveLoop(g) ELSE RejectLoop(g))
  /\ UNCHANGED <<changes, changesets, nextChange, nextChangeset, sent, credentials, requests, exec>>

\* POST /changesets/:id/approve: the status update of one member, in the try
\* or in the catch, and the next turn of the loop
ChangesetApproveWrite(h) ==
  /\ h.kind = "csApprove" /\ h.pc = "write"
  /\ changes' = updatePendingChangeStatus(h.members[h.i], ResolvedStatus(h.row),
                                          ResolvedResponse(h.row), ResolvedError(h.row))
  /\ handlers' = Continue(h, ApproveLoop([h EXCEPT !.i = @ + 1,
                                                   !.flag = @ \/ ~Succeeded(h.row)]))
  /\ resp' = NoResponse
  /\ UNCHANGED <<changesets, nextChange, nextChangeset, sent, credentials, requests, exec>>

finalStatusInverted(hasErrors) == IF hasErrors THEN "approved" ELSE "rejected"

\* finalStatus = hasErrors ? 'rejected' : 'approved'
finalStatus(hasErrors) == IF hasErrors THEN "rejected" ELSE "approved"

\* POST /changesets/:id/approve: the changeset's status update after the loop
ChangesetApproveFinal(h) ==
  /\ h.kind = "csApprove" /\ h.pc = "final"
  /\ changesets' = updateChangesetStatus(h.id, finalStatus(h.flag))
  /\ handlers' = Finish(h)
  /\ resp' = IF h.flag THEN SomeChangesFailed ELSE AllChangesApproved
  /\ UNCHANGED <<changes, nextChange, nextChangeset, sent, credentials, requests, exec>>

rejectReasonWithoutDefault(reason) == reason

\* reason || 'Changeset rejected'
rejectReason(reason) == IF reason = NULL THEN "Changeset rejected" ELSE reason

\* POST /changesets/:id/reject: the status update of one member
ChangesetRejectWrite(h) ==
  /\ h.kind = "csReject" /\ h.pc = "write"
  /\ changes' = updatePendingChangeStatus(h.members[h.i], "rejected", NULL,
                                          rejectReason(h.reason))
  /\ handlers' = Continue(h, RejectLoop([h EXCEPT !.i = @ + 1]))
  /\ resp' = NoResponse
  /\ UNCHANGED <<changesets, nextChange, nextChangeset, sent, credentials, requests, exec>>

\* POST /changesets/:id/reject: the changeset's status update after the loop
ChangesetRejectFinal(h) ==
  /\ h.kind = "csReject" /\ h.pc = "final"
  /\ changesets' = updateChangesetStatus(h.id, "rejected")
  /\ handlers' = Finish(h)
  /\ resp' = ChangesetRejected
  /\ UNCHANGED <<changes, nextChange, nextChangeset, sent, credentials, requests, exec>>

\* POST /changesets/:id/changes: the check of changeIds, the read of the
\* target and its status check
AddChangesRead(csid, ids) ==
  /\ CanStart
  /\ IF ids = {}
     THEN resp' = ChangeIdsRequired /\ handlers' = handlers
     ELSE IF csid \notin DOMAIN changesets
     THEN resp' = ChangesetNotFound /\ handlers' = handlers
     ELSE IF changesets[csid].status # "pending"
     THEN resp' = TargetNotPending /\ handlers' = handlers
     ELSE /\ resp' = NoResponse
          /\ handlers' = Start(Handler("addChanges", "move", csid, SortedSeq(ids),
                                       1, NULL, FALSE, NULL))
  /\ UNCHANGED <<changes, changesets, nextChange, nextChangeset, sent, credentials, exec>>
  /\ requests' = requests + 1

\* POST /changesets/:id/changes: moveChangesToChangeset
AddChangesMove(h) ==
  /\ h.kind = "addChanges" /\ h.pc = "move"
  /\ IF MoveFails(SeqSet(h.members), h.id)
     THEN resp' = AddChangesFailed /\ changes' = changes
     ELSE resp' = ChangesAdded /\ changes' = moveChangesToChangeset(SeqSet(h.members), h.id)
  /\ handlers' = Finish(h)
  /\ UNCHANGED <<changesets, nextChange, nextChangeset, sent, credentials, requests, exec>>

\* DELETE /changesets/:id
DeleteChangeset(csid) ==
  /\ CanAccept
  /\ changesets' = deleteChangeset(csid)
  /\ changes' = CascadeDelete(csid)
  /\ resp' = ChangesetDeleted
  /\ UNCHANGED <<nextChange, nextChangeset, handlers, sent, credentials, exec>>
  /\ requests' = requests + 1

\* -------------------------------------------------------------------- Next
Next ==
  \/ \E m \in Methods : CaptureAuto(m)
  \/ \E m \in Methods, csid \in KnownChangesets : CaptureRef(m, csid)
  \/ \E m \in Methods : ProxyForward(m)
  \/ \E h \in InFlight, o \in Outcomes : ForwardDone(h, o)
  \/ \E error \in ProposalErrors : ProposeChange(error)
  \/ \E h \in InFlight : doCreateChange(h)
  \/ \E id \in KnownChanges : ApproveRead(id)
  \/ \E h \in InFlight : Issue(h)
  \/ \E h \in InFlight, o \in Outcomes : Respond(h, o)
  \/ \E h \in InFlight : ApproveWrite(h)
  \/ \E id \in KnownChanges, r \in Reasons : RejectRead(id, r)
  \/ \E h \in InFlight : RejectWrite(h)
  \/ \E id \in KnownChanges : DeleteChange(id)
  \/ \E blank \in BOOLEAN : CreateChangeset(blank)
  \/ \E csid \in KnownChangesets : ChangesetRead("csApprove", csid, NULL)
  \/ \E csid \in KnownChangesets, r \in Reasons : ChangesetRead("csReject", csid, r)
  \/ \E h \in InFlight : ChangesetChanges(h)
  \/ \E h \in InFlight : ChangesetApproveWrite(h)
  \/ \E h \in InFlight : ChangesetApproveFinal(h)
  \/ \E h \in InFlight : ChangesetRejectWrite(h)
  \/ \E h \in InFlight : ChangesetRejectFinal(h)
  \/ \E csid \in KnownChangesets, ids \in SUBSET (1..(nextChange - 1)) : AddChangesRead(csid, ids)
  \/ \E h \in InFlight : AddChangesMove(h)
  \/ \E csid \in KnownChangesets : DeleteChangeset(csid)

Spec == Init /\ [][Next]_vars

\* the /proxy/* route alone, with methods written in either case and an
\* INSERT into pending_changes that may fail
ProxyNext ==
  \/ \E m \in Spellings : CaptureAuto(m)
  \/ \E m \in Spellings, csid \in KnownChangesets : CaptureRef(m, csid)
  \/ \E m \in Spellings : ProxyForward(m)
  \/ \E h \in InFlight, o \in Outcomes : ForwardDone(h, o)
  \/ \E h \in InFlight : doCreateChange(h)
  \/ \E h \in InFlight : doCreateChangeFails(h)

ProxySpec == Init /\ [][ProxyNext]_vars

\* The steps a handler takes on its own once the statement or call it awaits
\* has come back: the event loop runs every continuation that is ready.  The
\* answer of the downstream API (Respond, ForwardDone) is not among them:
\* fetch is called without a timeout or an abort signal, so nothing in the
\* process ends the wait.
Progress ==
  \E h \in InFlight :
    \/ doCreateChange(h)
    \/ Issue(h)
    \/ ApproveWrite(h)
    \/ RejectWrite(h)
    \/ ChangesetChanges(h)
    \/ ChangesetApproveWrite(h)
    \/ ChangesetApproveFinal(h)
    \/ ChangesetRejectWrite(h)
    \/ ChangesetRejectFinal(h)
    \/ AddChangesMove(h)

LiveSpec == Init /\ [][Next]_vars /\ WF_vars(Progress)

\* ------------------------------------- utils/executor.ts, statement by statement
approval == <<changes, changesets, nextChange, nextChangeset, handlers, sent,
              credentials, resp, requests>>

\* the for loop over bodyObj.transactions
RECURSIVE Postings(_)
Postings(txs) ==
  IF txs = <<>> THEN <<>>
  ELSE LET tx == Head(txs)
           amount == stringifyNumber(parseFloat(tx.amount))
       IN  (IF tx.debit_account # Absent
            THEN <<Posting(stringifyNumber(parseInt(tx.debit_account[1])), "D", amount)>>
            ELSE <<>>)
           \o (IF tx.credit_account # Absent
               THEN <<Posting(stringifyNumber(parseInt(tx.credit_account[1])), "C", amount)>>
               ELSE <<>>)
           \o Postings(Tail(txs))

normalizeOverwritingTitle(payload) ==
  IF payload.description # Absent
  THEN [payload EXCEPT !.title = payload.description]
  ELSE payload

\* payload.description && !payload.title
normalizeJournalPayload(payload) ==
  IF Truthy(payload.description) /\ ~Truthy(payload.title)
  THEN [payload EXCEPT !.title = payload.description]
  ELSE payload

transformJournalIgnoringPostings(bodyObj) ==
  IF bodyObj.transactions # Absent
  THEN normalizeJournalPayload(
         [bodyObj EXCEPT !.postings = Some(Postings(bodyObj.transactions[1])),
                         !.transactions = Absent])
  ELSE normalizeJournalPayload(bodyObj)

transformJournalAppending(bodyObj) ==
  IF bodyObj.transactions # Absent
  THEN normalizeJournalPayload(
         [bodyObj EXCEPT !.postings =
            Some((IF bodyObj.postings = Absent THEN <<>> ELSE bodyObj.postings[1])
                 \o Postings(bodyObj.transactions[1]))])
  ELSE normalizeJournalPayload(bodyObj)

\* the body of the try block, for a body that JSON.parse accepts
transformJournal(bodyObj) ==
  IF bodyObj.transactions # Absent /\ bodyObj.postings = Absent
  THEN normalizeJournalPayload(
         [bodyObj EXCEPT !.postings = Some(Postings(bodyObj.transactions[1])),
                         !.transactions = Absent])
  ELSE normalizeJournalPayload(bodyObj)

\* requestBody: change.body, replaced by the transformed text when the path
\* is a journal path and the try block runs through; the catch only logs
requestBodyOf(path, body) ==
  IF body.kind = "none" \/ ~IsJournalPath(path) THEN body
  ELSE IF body.kind = "text" THEN body
  ELSE Json(transformJournal(body.json))

\* executeChange is called with a stored Change
ExecInit ==
  /\ changes = <<>>
  /\ changesets = <<>>
  /\ nextChange = 1
  /\ nextChangeset = 1
  /\ handlers = EmptyBag
  /\ sent = [c \in ChangeIds |-> 0]
  /\ credentials \in BOOLEAN
  /\ resp = NoResponse
  /\ requests = 0
  /\ exec \in {[path |-> path, body |-> body, pc |-> "called",
                requestBody |-> NoBody, outcome |-> NULL,
                headers |-> NoAuthHeaders, now |-> CaptureTime,
                authHeaders |-> NULL, request |-> NULL] :
                 path \in Paths, body \in Bodies}

\* if (!credentials.apiKeyId || ...) throw
ExecCheckCredentials ==
  /\ exec.pc = "called"
  /\ exec' = IF credentials THEN [exec EXCEPT !.pc = "sign"]
             ELSE [exec EXCEPT !.pc = "thrown", !.outcome = NoCredentials]
  /\ UNCHANGED approval

\* const authHeaders = signRequest(change.method, signPath, credentials)
ExecSign ==
  /\ exec.pc = "sign"
  /\ exec' = [exec EXCEPT !.pc = "transform",
                          !.authHeaders = signRequest(signPathOf(exec.path), exec.now)]
  /\ UNCHANGED approval

\* let requestBody = change.body; if (change.body && ...) try {...} catch {}
ExecTransform ==
  /\ exec.pc = "transform"
  /\ exec' = [exec EXCEPT !.pc = "fetch",
                          !.requestBody = requestBodyOf(exec.path, exec.body)]
  /\ UNCHANGED approval

\* fetch(url, {method, headers, body: requestBody || undefined})
ExecFetch ==
  /\ exec.pc = "fetch"
  /\ exec' = [exec EXCEPT !.pc = "await",
                          !.request = fetchHeaders(exec.authHeaders)]
  /\ UNCHANGED approval

\* response.json(), the check of response.ok, return or throw
ExecRespond(outcome) ==
  /\ exec.pc = "await"
  /\ exec' = [exec EXCEPT !.pc = IF Succeeded(outcome) THEN "returned" ELSE "thrown",
                          !.outcome = outcome]
  /\ UNCHANGED approval

ExecNext ==
  \/ ExecCheckCredentials
  \/ ExecSign
  \/ ExecTransform
  \/ ExecFetch
  \/ \E o \in Outcomes : ExecRespond(o)

ExecSpec == ExecInit /\ [][ExecNext]_vars

\* executeChange is called some seconds after the capture, with a Change that
\* may carry the authentication headers of its client
SignInit ==
  /\ changes = <<>>
  /\ changesets = <<>>
  /\ nextChange = 1
  /\ nextChangeset = 1
  /\ handlers = EmptyBag
  /\ sent = [c \in ChangeIds |-> 0]
  /\ credentials \in BOOLEAN
  /\ resp = NoResponse
  /\ requests = 0
  /\ exec \in {[path |-> path, body |-> body, pc |-> "called",
                requestBody |-> NoBody, outcome |-> NULL,
                headers |-> headers, now |-> CaptureTime,
                authHeaders |-> NULL, request |-> NULL] :
                 path \in Paths, body \in {NoBody, Json(EmptyPayload)},
                 headers \in StoredHeaders}

\* a second passes
Tick ==
  /\ exec.now < MaxClock
  /\ exec' = [exec EXCEPT !.now = exec.now + 1]
  /\ UNCHANGED approval

SignNext ==
  \/ ExecNext
  \/ Tick

SignSpec == SignInit /\ [][SignNext]_vars

TypeOK ==
  /\ DOMAIN changes \subseteq ChangeIds
  /\ DOMAIN changesets \subseteq ChangesetIds
  /\ BagCardinality(handlers) <= MaxInFlight


\* ------------------------------------------------------------ properties
\* the handler h takes the step / the handler g comes out of the step
Stepped(h) == CopiesIn(h, handlers') < CopiesIn(h, handlers)
Emerged(g) == CopiesIn(g, handlers') > CopiesIn(g, handlers)
After == {g \in BagToSet(handlers') : Emerged(g)}

DeletedChangesets == (1..(nextChangeset - 1)) \ DOMAIN changesets
DeletedChanges == (1..(nextChange - 1)) \ DOMAIN changes

\* C1: for every Change, whatever approval calls name it and however they
\* interleave, at most one downstream request is issued for it and at most one
\* terminal status is written to its row.
C1_AtMostOneExecution ==
  \A c \in ChangeIds :
    /\ sent[c] <= 1
    /\ c \in DOMAIN changes => changes[c].writes <= 1

\* C2: the status of a Change only goes from pending to approved or from
\* pending to rejected: once it is terminal, no step replaces it or writes it
\* again.
C2_StatusMonotonic ==
  [][\A c \in DOMAIN changes \cap DOMAIN changes' :
       changes[c].status # "pending" =>
         /\ changes'[c].status = changes[c].status
         /\ changes'[c].writes = changes[c].writes]_vars

\* C3: a downstream request for a write is issued only by an approval (single
\* or changeset) that is in flight for a Change that was stored, and the proxy
\* forwards no request whose method is a write method.
C3_NoWriteWithoutApproval ==
  [][/\ \A c \in ChangeIds :
          sent'[c] > sent[c] =>
            /\ c < nextChange
            /\ \E h \in InFlight :
                 /\ h.kind \in {"approve", "csApprove"}
                 /\ Stepped(h)
                 /\ h.i <= Len(h.members) /\ h.members[h.i] = c
     /\ \A g \in BagToSet(handlers') :
          g.kind = "forward" => g.row \notin WRITE_METHODS]_vars

C3_Witness ==
  \E c \in DOMAIN changes : sent[c] = 1 /\ changes[c].status = "approved"

\* C4: an approve or reject call that finds its Change approved or rejected
\* answers with the conflict, issues no downstream request, starts no work and
\* changes nothing in the store.
C4_ConflictLeavesStateUntouched ==
  [][\A id \in ChangeIds :
       ( /\ id \in DOMAIN changes
         /\ changes[id].status # "pending"
         /\ (ApproveRead(id) \/ \E r \in Reasons : RejectRead(id, r)) )
       => /\ resp' = ChangeConflict
          /\ UNCHANGED <<changes, changesets, sent, handlers>>]_vars

C4_Witness ==
  /\ resp = ChangeConflict
  /\ \E c \in DOMAIN changes : changes[c].status # "pending"

\* C5: a changeset approval takes every member that is pending in what it
\* read, writes for each the status its own execution calls for (approved with
\* the response, or rejected with the error) and goes on to the next member
\* after a failure as after a success.
C5_EveryPendingMemberResolved ==
  [][\A h \in InFlight :
       (h.kind = "csApprove" /\ Stepped(h)) =>
         /\ (h.pc = "changes" /\ h.row = "pending") =>
              \A g \in After :
                /\ SeqSet(g.members) =
                     {c \in DOMAIN changes : /\ changes[c].changesetId = h.id
                                             /\ changes[c].status = "pending"}
                /\ g.i = 1
         /\ h.pc = "write" =>
              LET c == h.members[h.i] IN
              /\ c \in DOMAIN changes =>
                   /\ changes'[c].status = (IF h.row = "ok" THEN "approved" ELSE "rejected")
                   /\ h.row = "ok" => changes'[c].response # NULL /\ changes'[c].error = NULL
                   /\ h.row # "ok" => changes'[c].error # NULL /\ changes'[c].response = NULL
              /\ \A g \in After :
                   /\ g.kind = "csApprove" /\ g.id = h.id /\ g.members = h.members
                   /\ g.i = h.i + 1
                   /\ g.pc = "final" <=> h.i = Len(h.members)
         /\ h.pc = "final" => h.i = Len(h.members) + 1]_vars

C5_Witness ==
  /\ \E h \in InFlight : h.kind = "csApprove" /\ h.pc = "final" /\ h.members = <<1, 2, 3>>
  /\ DOMAIN changes = {1, 2, 3}
  /\ changes[1].status = "approved" /\ changes[3].status = "approved"
  /\ changes[2].status = "rejected" /\ changes[2].error # NULL

\* C6: the status a changeset approval writes to its Changeset is approved
\* when no execution of the pass failed and rejected when one did, whatever
\* the other members ended as.
C6_ChangesetStatusFollowsFailures ==
  [][\A h \in InFlight :
       (h.kind = "csApprove" /\ Stepped(h)) =>
         /\ (h.pc = "changes" /\ h.row = "pending") => \A g \in After : ~g.flag
         /\ h.pc \in {"issue", "await"} => \A g \in After : g.flag = h.flag
         /\ h.pc = "write" => \A g \in After : g.flag = (h.flag \/ h.row # "ok")
         /\ (h.pc = "final" /\ h.id \in DOMAIN changesets) =>
              changesets'[h.id].status = (IF h.flag THEN "rejected" ELSE "approved")]_vars

C6_Witness ==
  /\ resp = SomeChangesFailed
  /\ \E c \in DOMAIN changes :
       /\ changes[c].status = "approved" /\ sent[c] = 1
       /\ changes[c].changesetId \in DOMAIN changesets
       /\ changesets[changes[c].changesetId].status = "rejected"

\* C7: when a capture without a changeset reference (proxy write or
\* propose_change) succeeds, the Changeset it created is in the store, is
\* pending and holds exactly one Change, the captured one.
C7_AutoChangesetHoldsOnlyTheCapture ==
  [][\A h \in InFlight :
       (h.kind \in {"capture", "propose"} /\ Stepped(h) /\ resp' \in {Captured, Proposed}) =>
         /\ h.id \in DOMAIN changesets'
         /\ changesets'[h.id].status = "pending"
         /\ {c \in DOMAIN changes' : changes'[c].changesetId = h.id} = {nextChange}]_vars

\* C8: no stored Change references a Changeset that has been deleted, also
\* with captures, add-changes calls and approvals in flight across the delete.
C8_NoChangeOfDeletedChangeset ==
  \A c \in DOMAIN changes : changes[c].changesetId \notin DeletedChangesets

C8_Witness ==
  /\ DeletedChanges # {}
  /\ \E h \in InFlight :
       /\ h.kind \in {"capture", "propose", "addChanges", "csApprove", "csReject"}
       /\ h.id \in DeletedChangesets

\* C9: no Change has both a response and an error, and a pending Change has
\* neither.
C9_ResponseErrorExclusive ==
  \A c \in DOMAIN changes :
    /\ ~(changes[c].response # NULL /\ changes[c].error # NULL)
    /\ changes[c].status = "pending" =>
         changes[c].response = NULL /\ changes[c].error = NULL

C9_Witness ==
  \E c \in DOMAIN changes : changes[c].writes >= 2 /\ changes[c].response # NULL

\* C10: every stored Change names a Changeset that is in the store.
C10_ChangeBelongsToStoredChangeset ==
  \A c \in DOMAIN changes :
    /\ changes[c].changesetId # NoId
    /\ changes[c].changesetId \in DOMAIN changesets

C10_Witness ==
  /\ resp \in {CaptureFailed, ProposalFailed, AddChangesFailed}
  /\ DOMAIN changes # {}

\* C11: the status of a Changeset only goes from pending to approved or from
\* pending to rejected: once it is terminal, no step replaces its status or
\* writes its resolvedAt and resolvedBy again.
C11_ChangesetStatusMonotonic ==
  [][\A s \in DOMAIN changesets \cap DOMAIN changesets' :
       changesets[s].status # "pending" =>
         /\ changesets'[s].status = changesets[s].status
         /\ changesets'[s].writes = changesets[s].writes]_vars

\* C12: a Change whose status is approved or rejected keeps its changesetId as
\* long as it is stored: no add-changes call moves it to another Changeset.
C12_ResolvedChangeIsNeverMoved ==
  [][\A c \in DOMAIN changes \cap DOMAIN changes' :
       changes[c].status # "pending" =>
         changes'[c].changesetId = changes[c].changesetId]_vars

\* C13: a changeset approval works through its pending members in the order of
\* their creation, one at a time: when it issues the request for a member, the
\* request of every earlier member has been answered and its outcome written.
C13_MembersExecutedInCreationOrder ==
  [][\A h \in InFlight :
       (h.kind = "csApprove" /\ Stepped(h)) =>
         /\ (h.pc = "changes" /\ h.row = "pending") =>
              \A g \in After :
                /\ \A j, k \in 1..Len(g.members) : j < k => g.members[j] < g.members[k]
                /\ g.i = 1
         /\ \A c \in ChangeIds :
              sent'[c] > sent[c] =>
                /\ h.pc = "issue" /\ h.i \in 1..Len(h.members) /\ c = h.members[h.i]
                /\ \A d \in ChangeIds \ {c} : sent'[d] = sent[d]
                /\ \A j \in 1..(h.i - 1) :
                     /\ sent[h.members[j]] >= 1
                     /\ h.members[j] \in DOMAIN changes =>
                          /\ changes[h.members[j]].status # "pending"
                          /\ changes[h.members[j]].writes >= 1
         /\ h.pc \in {"issue", "await"} =>
              \A g \in After : g.members = h.members /\ g.i = h.i]_vars

C13_Witness ==
  \E h \in InFlight :
    /\ h.kind = "csApprove" /\ h.pc = "await" /\ h.i = 2
    /\ sent[h.members[1]] = 1 /\ sent[h.members[2]] = 1
    /\ h.members[1] \in DOMAIN changes /\ changes[h.members[1]].status = "rejected"

\* C14: the single-change reject of a pending Change writes status rejected
\* with the caller's reason as error and no response, and neither its read nor
\* its write issues a downstream request.
C14_RejectWritesRejectedWithoutExecution ==
  [][/\ \A h \in InFlight :
          (h.kind = "reject" /\ Stepped(h)) =>
            /\ sent' = sent
            /\ resp' = ChangeRejected
            /\ h.id \in DOMAIN changes =>
                 /\ changes'[h.id].status = "rejected"
                 /\ changes'[h.id].response = NULL
                 /\ changes'[h.id].error = h.reason
     /\ \A id \in ChangeIds, r \in Reasons :
          (id \in DOMAIN changes /\ changes[id].status = "pending" /\ RejectRead(id, r)) =>
            /\ sent' = sent /\ changes' = changes
            /\ \E g \in After : g.kind = "reject" /\ g.id = id /\ g.reason = r]_vars

C14_Witness ==
  /\ resp = ChangeRejected
  /\ \E c \in DOMAIN changes :
       /\ changes[c].status = "rejected" /\ changes[c].error = "reason"
       /\ changes[c].writes = 1 /\ sent[c] = 0

\* C15: a changeset rejection takes every member that is pending in what it
\* read, writes each as rejected with the supplied reason (the default reason
\* when none is supplied) and no response, touches no other Change, then writes
\* the Changeset as rejected; none of its steps issues a downstream request.
C15_ChangesetRejectResolvesPendingMembers ==
  [][\A h \in InFlight :
       (h.kind = "csReject" /\ Stepped(h)) =>
         /\ sent' = sent
         /\ (h.pc = "changes" /\ h.row = "pending") =>
              /\ store' = store
              /\ \A g \in After :
                   /\ SeqSet(g.members) =
                        {c \in DOMAIN changes : /\ changes[c].changesetId = h.id
                                                /\ changes[c].status = "pending"}
                   /\ g.i = 1
         /\ h.pc = "write" =>
              LET c == h.members[h.i] IN
              /\ changesets' = changesets
              /\ DOMAIN changes' = DOMAIN changes
              /\ \A d \in DOMAIN changes \ {c} : changes'[d] = changes[d]
              /\ c \in DOMAIN changes =>
                   /\ changes'[c].status = "rejected"
                   /\ changes'[c].response = NULL
                   /\ changes'[c].error =
                        (IF h.reason = NULL THEN "Changeset rejected" ELSE h.reason)
              /\ \A g \in After :
                   /\ g.kind = "csReject" /\ g.id = h.id /\ g.members = h.members
                   /\ g.reason = h.reason
                   /\ g.i = h.i + 1
                   /\ g.pc = "final" <=> h.i = Len(h.members)
         /\ h.pc = "final" =>
              /\ h.i = Len(h.members) + 1
              /\ changes' = changes
              /\ resp' = ChangesetRejected
              /\ h.id \in DOMAIN changesets => changesets'[h.id].status = "rejected"]_vars

C15_Witness ==
  /\ resp = ChangesetRejected
  /\ \E c, d \in DOMAIN changes :
       /\ changes[c].changesetId = changes[d].changesetId
       /\ changes[c].changesetId \in DOMAIN changesets
       /\ changesets[changes[c].changesetId].status = "rejected"
       /\ changes[c].status = "approved" /\ changes[c].response # NULL
       /\ changes[d].status = "rejected" /\ changes[d].error = "Changeset rejected"
       /\ sent[d] = 0

\* C16: when the downstream API answers the request of an approval with a
\* non-success status, the approval writes the Change as rejected with the
\* failure as error and no response, and its caller is told of the failure:
\* 500 on the single-change path, 'Some changes failed' on the changeset path.
C16_UpstreamErrorRejectsTheChange ==
  [][\A h \in InFlight :
       (h.kind \in {"approve", "csApprove"} /\ Stepped(h)) =>
         /\ (h.pc = "write" /\ h.row = "httpError") =>
              LET c == h.members[h.i] IN
              /\ sent[c] >= 1
              /\ c \in DOMAIN changes =>
                   /\ changes'[c].status = "rejected"
                   /\ changes'[c].error = "httpError"
                   /\ changes'[c].response = NULL
              /\ h.kind = "approve" => resp' = ApproveFailed
              /\ h.kind = "csApprove" => \A g \in After : g.flag
         /\ (h.kind = "csApprove" /\ h.pc = "final" /\ h.flag) =>
              resp' = SomeChangesFailed]_vars

C16_Witness ==
  /\ resp = ApproveFailed
  /\ \E c \in DOMAIN changes :
       /\ changes[c].status = "rejected" /\ changes[c].error = "httpError"
       /\ changes[c].response = NULL /\ sent[c] = 1

\* an approval is waiting for the downstream API's answer to the request of c
Awaiting(c) ==
  \E h \in InFlight :
    /\ h.kind \in {"approve", "csApprove"} /\ h.pc = "await"
    /\ h.members[h.i] = c

\* C17: every approval eventually completes: the wait for the downstream
\* API's answer to the request of a Change always comes to an end (by the
\* answer or by the timeout), after which the Change is written as terminal.
C17_ApprovalEventuallyCompletes ==
  \A c \in ChangeIds : Awaiting(c) ~> ~Awaiting(c)

\* C18: while the credentials are not configured, an approval issues no
\* downstream request and no step of it changes the store: the Change it names
\* stays pending with all its fields.
C18_NoCredentialsLeavesChangePending ==
  [][~credentials =>
       \A h \in InFlight :
         (h.kind \in {"approve", "csApprove"} /\ Stepped(h)) =>
           /\ sent' = sent
           /\ changes' = changes]_vars

\* the request of the call that is followed has been handed to fetch
Fetched == exec.pc \in {"await", "returned"} \/ (exec.pc = "thrown" /\ exec.outcome \in Outcomes)

\* the amounts in use that write a number
NumericAmounts == {"12.50"}

\* a journal body the transform cannot turn into the API format: a text that
\* is not JSON, or simplified lines of which one has an amount that is no number
MalformedJournalBody(body) ==
  \/ body.kind = "text"
  \/ /\ body.kind = "json"
     /\ body.json.transactions # Absent /\ body.json.postings = Absent
     /\ \E k \in 1..Len(body.json.transactions[1]) :
          body.json.transactions[1][k].amount \notin NumericAmounts

\* C19: executeChange never hands the request of a journal Change whose body
\* is malformed to fetch: it ends with a transform error before the network.
C19_MalformedJournalBodyIsNeverSent ==
  (IsJournalPath(exec.path) /\ MalformedJournalBody(exec.body)) => ~Fetched

\* every record, every id handed out, every handler in flight and every
\* request sent stay as they are
Untouched == UNCHANGED <<changes, changesets, nextChange, nextChangeset, handlers, sent>>

\* the arguments of propose_change that lack the endpoint, the method, or the
\* body of a POST, PUT or PATCH: <<hasEndpoint, method, hasBody>>
InvalidProposals ==
  {a \in BOOLEAN \X (Methods \cup {NULL}) \X BOOLEAN :
     \/ ~a[1]
     \/ a[2] = NULL
     \/ a[2] \in {"POST", "PUT", "PATCH"} /\ ~a[3]}

InvalidProposalErrors == {proposalError(a[1], a[2], a[3]) : a \in InvalidProposals}

\* C20: a call that fails validation or names no record changes nothing and
\* creates nothing: approve and reject of an unknown Change, changeset approve,
\* changeset reject and add-changes on an unknown Changeset, add-changes that
\* lists no stored Change, creation of a Changeset with a blank name, and
\* propose_change without endpoint or method, or without a body for POST, PUT
\* or PATCH.
C20_ValidationFailuresChangeNothing ==
  [][/\ requests' # requests =>
          /\ \A id \in KnownChanges :
               ( /\ id \notin DOMAIN changes
                 /\ (ApproveRead(id) \/ \E r \in Reasons : RejectRead(id, r)) )
               => resp' = ChangeNotFound /\ Untouched
          /\ \A csid \in KnownChangesets :
               ( /\ csid \notin DOMAIN changesets
                 /\ \/ ChangesetRead("csApprove", csid, NULL)
                    \/ \E r \in Reasons : ChangesetRead("csReject", csid, r)
                    \/ \E c \in KnownChanges \ {NoId} : AddChangesRead(csid, {c}) )
               => resp' = ChangesetNotFound /\ Untouched
          /\ \A csid \in KnownChangesets :
               AddChangesRead(csid, {}) => resp' = ChangeIdsRequired /\ Untouched
          /\ CreateChangeset(TRUE) => resp' = NameRequired /\ Untouched
          /\ \A error \in InvalidProposalErrors : ProposeChange(error)
               => resp' \in {ProposalInvalid, BodyRequired} /\ Untouched
     /\ \A h \in InFlight :
          (AddChangesMove(h) /\ SeqSet(h.members) \cap DOMAIN changes = {})
          => store' = store /\ sent' = sent]_vars

C20_Witness ==
  /\ resp \in {ChangeNotFound, ChangesetNotFound, ChangeIdsRequired, NameRequired,
               ProposalInvalid, BodyRequired}
  /\ DOMAIN changes # {} /\ DOMAIN changesets # {}
  /\ handlers # EmptyBag

\* C21: a capture without a changeset reference that ends in failure leaves
\* no record behind: the Changeset it created is not in the store.
C21_FailedCaptureLeavesNoChangeset ==
  [][\A h \in InFlight :
       ( /\ h.kind \in {"capture", "propose"} /\ Stepped(h)
         /\ resp' \in {CaptureFailed, ProposalFailed} )
       => h.id \notin DOMAIN changesets']_vars

\* C22: a capture that names a Changeset stores a new pending Change in that
\* Changeset when it is in the store; when it is not, the capture fails and
\* stores no Change.
C22_CaptureFollowsItsReference ==
  [][requests' # requests =>
       \A csid \in KnownChangesets :
         CaptureRef("POST", csid) =>
           IF csid \in DOMAIN changesets
           THEN /\ resp' = Captured
                /\ DOMAIN changes' = DOMAIN changes \cup {nextChange}
                /\ nextChange \notin DOMAIN changes
                /\ changes'[nextChange].changesetId = csid
                /\ changes'[nextChange].status = "pending"
                /\ \A c \in DOMAIN changes : changes'[c] = changes[c]
           ELSE /\ resp' = CaptureFailed
                /\ changes' = changes /\ nextChange' = nextChange]_vars

C22_Witness ==
  /\ resp = CaptureFailed
  /\ nextChangeset = 2 /\ nextChange = 2
  /\ DOMAIN changesets = {} /\ DOMAIN changes = {}
  /\ handlers = EmptyBag

\* the body transform of the call that is followed has run
Transformed == exec.pc = "fetch" \/ Fetched

\* ... on a journal path, for a body that is the text of a JSON object
TransformedJournal ==
  Transformed /\ exec.path = "/proxy/v1/journals" /\ exec.body.kind = "json"

\* the JSON number a posting carries is the number the amount writes
Denotes(number, amount) == amount = "12.50" /\ number = "12.5"

\* the lines the simplified transactions stand for, in order: for each
\* transaction its debit side when debit_account is set, then its credit side
\* when credit_account is set
RECURSIVE ExpectedLines(_)
ExpectedLines(txs) ==
  IF txs = <<>> THEN <<>>
  ELSE (IF Head(txs).debit_account # Absent
        THEN <<[account |-> Head(txs).debit_account[1], type |-> "D",
                amount |-> Head(txs).amount]>>
        ELSE <<>>)
       \o (IF Head(txs).credit_account # Absent
           THEN <<[account |-> Head(txs).credit_account[1], type |-> "C",
                   amount |-> Head(txs).amount]>>
           ELSE <<>>)
       \o ExpectedLines(Tail(txs))

\* C23: for a journal payload with simplified transactions and no postings,
\* the transformed payload has one posting per expected line, in order, with
\* the line's account and type, amount and base_amount equal to the line's
\* amount, currency EUR and is_deleted false; it has no transactions key and
\* its description is that of the payload (its title is the subject of C26).
C23_TransactionsBecomePostings ==
  ( /\ TransformedJournal
    /\ exec.body.json.transactions # Absent /\ exec.body.json.postings = Absent )
  => LET q == exec.body.json
         r == exec.requestBody.json
         lines == ExpectedLines(q.transactions[1])
     IN  /\ exec.requestBody.kind = "json"
         /\ r.transactions = Absent
         /\ r.description = q.description
         /\ r.postings # Absent
         /\ Len(r.postings[1]) = Len(lines)
         /\ \A k \in 1..Len(lines) :
              /\ r.postings[1][k].accounts_id = lines[k].account
              /\ r.postings[1][k].type = lines[k].type
              /\ Denotes(r.postings[1][k].amount, lines[k].amount)
              /\ r.postings[1][k].base_amount = r.postings[1][k].amount
              /\ r.postings[1][k].cl_currencies_id = "EUR"
              /\ r.postings[1][k].is_deleted = FALSE

\* C24 as stated: a journal payload that has postings is sent as it is stored,
\* whatever its transactions, title and description are.
C24_NativePayloadUnchanged ==
  (TransformedJournal /\ exec.body.json.postings # Absent)
  => exec.requestBody = exec.body

\* C24: a journal payload that has postings keeps its postings, transactions
\* and description; its title becomes its description when the description is
\* not empty and the title is missing or empty, and stays as it is otherwise.
C24_NativePayloadKeepsItsLines ==
  (TransformedJournal /\ exec.body.json.postings # Absent)
  => LET q == exec.body.json
     IN  exec.requestBody =
           Json([q EXCEPT !.title =
                   IF q.description \notin {Absent, Some("")} /\ q.title \in {Absent, Some("")}
                   THEN q.description ELSE @])

C24_Witness ==
  /\ TransformedJournal /\ Fetched
  /\ exec.body.json.postings # Absent
  /\ exec.body.json.transactions # Absent /\ Len(exec.body.json.transactions[1]) = 2
  /\ exec.body.json.title = Some("T") /\ exec.body.json.description = Some("D")
  /\ exec.requestBody = exec.body

\* C25: the body transform is idempotent: applied to the body it produced, it
\* gives that body again, for every path and every body.
C25_TransformIdempotent ==
  Transformed => requestBodyOf(exec.path, exec.requestBody) = exec.requestBody

C25_Witness ==
  /\ TransformedJournal
  /\ exec.body.json.transactions # Absent /\ Len(exec.body.json.transactions[1]) = 2
  /\ exec.body.json.postings = Absent
  /\ exec.body.json.title = Absent /\ exec.body.json.description = Some("D")
  /\ exec.requestBody # exec.body
  /\ requestBodyOf(exec.path, exec.requestBody) = exec.requestBody

\* C26 as stated: a payload with a description and no title gets the
\* description as title, and a payload with a title keeps it.
C26_TitleFromDescription ==
  TransformedJournal
  => LET q == exec.body.json
         r == exec.requestBody.json
     IN  /\ (q.description # Absent /\ q.title = Absent) => r.title = q.description
         /\ q.title # Absent => r.title = q.title

\* C26: a payload whose description is not empty and whose title is missing
\* or empty gets the description as title; every other payload keeps its
\* title as it is (missing, empty or not).
C26_TitleFromNonEmptyDescription ==
  TransformedJournal
  => LET q == exec.body.json
         r == exec.requestBody.json
     IN  r.title = IF q.description \notin {Absent, Some("")} /\ q.title \in {Absent, Some("")}
                   THEN q.description ELSE q.title

C26_Witness ==
  /\ TransformedJournal /\ Fetched
  /\ exec.body.json.title = Some("") /\ exec.body.json.description = Some("D")
  /\ exec.requestBody.json.title = Some("D")

\* C27: for a Change whose path is not a journal path, the body handed to
\* fetch is the body stored with the Change.
C27_OtherEndpointsBodyUntouched ==
  (Transformed /\ exec.path = "/proxy/v1/invoices") => exec.requestBody = exec.body

C27_Witness ==
  /\ Fetched /\ exec.path = "/proxy/v1/invoices"
  /\ exec.body.kind = "json"
  /\ exec.body.json.transactions # Absent /\ exec.body.json.postings = Absent
  /\ exec.body.json.title = Absent /\ exec.body.json.description = Some("D")
  /\ exec.requestBody = exec.body

\* an execution of c has failed at the downstream API: the failure is in the
\* hands of the approval that ran it, or is written to the row
FailedExecution(c) ==
  \/ \E h \in InFlight :
       /\ h.kind \in {"approve", "csApprove"} /\ h.pc = "write"
       /\ h.i <= Len(h.members) /\ h.members[h.i] = c
       /\ h.row \in {"httpError", "notJson"}
  \/ /\ c \in DOMAIN changes
     /\ changes[c].status = "rejected"
     /\ changes[c].error \in {"httpError", "notJson"}

\* C28: no approval names a Change twice in its list, and once an execution of
\* a Change has failed, no approve call and no changeset approval made
\* afterwards takes that Change up for execution.
C28_NoRetryAfterFailure ==
  [][/\ \A h \in InFlight :
          h.kind \in {"approve", "csApprove"} =>
            \A j, k \in 1..Len(h.members) : j # k => h.members[j] # h.members[k]
     /\ \A c \in ChangeIds :
          FailedExecution(c) =>
            /\ ApproveRead(c) => handlers' = handlers
            /\ \A h \in InFlight :
                 (h.kind = "csApprove" /\ h.pc = "changes" /\ Stepped(h)) =>
                   \A g \in After : c \notin SeqSet(g.members)]_vars

\* the spellings of POST, PATCH, PUT and DELETE among the methods in use
WriteSpellings == {"POST", "PATCH", "PUT", "DELETE", "post"}

\* C29: a proxy request whose method is a spelling of POST, PATCH, PUT or
\* DELETE takes the capture path and is never forwarded: a Changeset is made
\* for its Change, or its Change is stored as pending in the Changeset it names.
\* A request with any other method never takes the capture path, and
\* forwarding it leaves every Change and every Changeset as it was and creates
\* none.
C29_CapturedExactlyWhenWrite ==
  [][requests' # requests =>
       \A m \in Spellings :
         IF m \in WriteSpellings
         THEN /\ ~ProxyForward(m)
              /\ CaptureAuto(m) =>
                   \E g \in After : g.kind = "capture" /\ g.id \in DOMAIN changesets'
              /\ \A csid \in DOMAIN changesets :
                   CaptureRef(m, csid) =>
                     /\ nextChange \in DOMAIN changes' \ DOMAIN changes
                     /\ changes'[nextChange].status = "pending"
         ELSE /\ ~CaptureAuto(m)
              /\ \A csid \in KnownChangesets : ~CaptureRef(m, csid)
              /\ ProxyForward(m) =>
                   /\ store' = store
                   /\ nextChange' = nextChange /\ nextChangeset' = nextChangeset]_vars

C29_Witness ==
  /\ \E g \in InFlight : g.kind = "forward" /\ g.row = "get"
  /\ \E c \in DOMAIN changes : changes[c].status = "pending"
  /\ resp = NoResponse

\* C30: the authentication headers are made by the signing step from the
\* timestamp of that step, over the path signed for the Change, whatever time
\* has passed since the capture; the request carries the content type and
\* these headers and nothing of the headers stored with the Change.
C30_SignedAtExecution ==
  [][/\ (exec.pc = "sign" /\ exec'.pc = "transform") =>
          /\ exec'.authHeaders.querytime = exec.now
          /\ exec'.authHeaders.key =
               <<"apiKeyPublic", Hmac(<<"apiKeyId", exec.now, signPathOf(exec.path)>>)>>
     /\ (exec.pc = "fetch" /\ exec'.pc = "await") =>
          /\ DOMAIN exec'.request = {"contentType", "querytime", "key"}
          /\ exec'.request.contentType = "application/json"
          /\ exec'.request.querytime = exec.authHeaders.querytime
          /\ exec'.request.key = exec.authHeaders.key
          /\ Some(exec'.request.key) # exec.headers.key]_vars

C30_Witness ==
  /\ exec.pc = "await"
  /\ exec.headers = ClientAuthHeaders
  /\ exec.request.querytime > CaptureTime
  /\ exec.request.querytime < exec.now

\* the messages executeChange can throw
ExecutionErrors == {ErrorMessage(o) : o \in (Outcomes \cup {NoCredentials}) \ {"ok"}}

\* C31: a Change with a response is one whose request was sent and accepted,
\* and the error of a Change is the message of a failed execution: no Change
\* carries an error that no execution set.
C31_ResponseAndErrorComeFromExecution ==
  \A c \in DOMAIN changes :
    /\ changes[c].response # NULL => sent[c] >= 1
    /\ changes[c].error # NULL => changes[c].error \in ExecutionErrors

\* the outcomes in which the downstream API answered with a success status
AcceptedDownstream == {"ok", "notJson"}

\* C32: the status an approval writes for a Change is approved exactly when
\* the downstream API answered the request with a success status, whatever
\* the body of that answer.
C32_ApprovedExactlyWhenAccepted ==
  [][\A h \in InFlight :
       ( /\ h.kind \in {"approve", "csApprove"} /\ h.pc = "write"
         /\ Stepped(h)
         /\ h.members[h.i] \in DOMAIN changes )
       => (changes'[h.members[h.i]].status = "approved"
             <=> h.row \in AcceptedDownstream)]_vars

\* C33: the steps of executeChange (sending the request, taking the answer or
\* throwing) leave both tables as they are; the row is written by the step of
\* the approval handler that follows.
C33_ExecutorLeavesStoreAlone ==
  [][requests' = requests =>
       \A h \in InFlight :
         ( /\ h.kind \in {"approve", "csApprove"} /\ h.pc \in {"issue", "await"}
           /\ Stepped(h) )
         => /\ store' = store
            /\ \A g \in After : g.pc \in {"await", "write"}]_vars

C33_Witness ==
  \E h \in InFlight :
    /\ h.kind \in {"approve", "csApprove"} /\ h.pc = "write"
    /\ h.row \in Outcomes
    /\ h.members[h.i] \in DOMAIN changes
    /\ changes[h.members[h.i]] = PendingRow(changes[h.members[h.i]].changesetId)
    /\ sent[h.members[h.i]] = 1

\* C34: a changeset approve or reject call that reads its Changeset as approved
\* or rejected answers with the conflict; neither its read nor its answer
\* issues a downstream request, starts a loop or changes a row of either table.
C34_ResolvedChangesetIsRefused ==
  [][IF requests' # requests
     THEN \A csid \in DOMAIN changesets :
            ( /\ changesets[csid].status # "pending"
              /\ \/ ChangesetRead("csApprove", csid, NULL)
                 \/ \E r \in Reasons : ChangesetRead("csReject", csid, r) )
            => /\ store' = store /\ sent' = sent
               /\ \A g \in After : g.pc = "changes" /\ g.row = changesets[csid].status
     ELSE \A h \in InFlight :
            ( /\ h.kind \in {"csApprove", "csReject"} /\ h.pc = "changes"
              /\ h.row # "pending" /\ Stepped(h) )
            => /\ resp' = ChangesetConflict
               /\ store' = store /\ sent' = sent
               /\ After = {}]_vars

C34_Witness ==
  /\ resp = ChangesetConflict
  /\ \E s \in DOMAIN changesets :
       /\ changesets[s].status # "pending"
       /\ \E c \in DOMAIN changes : changes[c].changesetId = s

\* C35: a Changeset that is approved or rejected has no pending member.
C35_ResolvedChangesetHasNoPendingMember ==
  \A s \in DOMAIN changesets :
    changesets[s].status # "pending" =>
      \A c \in DOMAIN changes :
        changes[c].changesetId = s => changes[c].status # "pending"

\* the row of c is the one a human rejection wrote: rejected, with the reason
\* or with no error, not with the message of an execution
RejectedByHuman(c) ==
  /\ c \in DOMAIN changes
  /\ changes[c].status = "rejected"
  /\ changes[c].error \notin ExecutionErrors

\* C36: no downstream request is issued for a Change that a human rejected.
C36_RejectedChangeIsNeverSent ==
  [][\A c \in ChangeIds : RejectedByHuman(c) => sent'[c] = sent[c]]_vars

\* C37: for a Change that has been deleted (itself, or with its Changeset)
\* no downstream request is issued and no step puts its row back.
C37_DeletedChangeStaysGone ==
  [][\A c \in DeletedChanges :
       /\ sent'[c] = sent[c]
       /\ c \notin DOMAIN changes']_vars

\* the fields of a Change that a status update does not write
SameOutsideResolution(c) ==
  /\ c \in DOMAIN changes'
  /\ changes'[c].changesetId = changes[c].changesetId

\* C38: every step of POST /changes/:id/approve and POST /changes/:id/reject
\* leaves every Changeset and every other Change as it was, and changes of
\* its own Change nothing but status, resolvedAt, response and error.
C38_SingleChangePathTouchesOnlyItsChange ==
  [][IF requests' # requests
     THEN ( \/ resp' \in {ChangeNotFound, ChangeConflict}
            \/ \E g \in After : g.kind \in {"approve", "reject"} )
          => store' = store
     ELSE \A h \in InFlight :
            (h.kind \in {"approve", "reject"} /\ Stepped(h))
            => /\ changesets' = changesets
               /\ DOMAIN changes' = DOMAIN changes
               /\ \A c \in DOMAIN changes :
                    IF c = h.id
                    THEN SameOutsideResolution(c)
                    ELSE changes'[c] = changes[c]]_vars

\* a Changeset still pending although each of its members was resolved by a
\* single-change call, the last of them just now
C38_Witness ==
  /\ resp \in {ChangeApproved, ApproveFailed, ChangeRejected}
  /\ \A h \in InFlight : h.kind \notin {"csApprove", "csReject", "addChanges"}
  /\ \E s \in DOMAIN changesets :
       /\ changesets[s].status = "pending"
       /\ changesets[s].writes = 0
       /\ Len(MembersOf(s)) >= 2
       /\ PendingMembersOf(s) = <<>>

\* ------------------------------------------- the captured request data
\* req.query of the captured request: each key absent, empty or with a value
QueryKeys == {"page"}
QueryValues == {"", "1"}
Queries == UNION {[K -> QueryValues] : K \in SUBSET QueryKeys}
WriteMethods == {m \in Methods : isWriteOperation(m)}

\* the columns method, path, headers, body and query of a row
RequestData(row) ==
  [method |-> row.method, path |-> row.path, query |-> row.query,
   headers |-> row.headers, body |-> row.body]

\* doCreateChange: the Change built from the request
CapturedChange(csid, method, path, query) ==
  PendingRow(csid) @@
  [method |-> method, path |-> path, query |-> query,
   headers |-> NoAuthHeaders, body |-> NoBody]

\* cleanPath resolved against the base URL, for the paths in use:
\* /proxy/v1/xxx -> /v1/xxx
urlPathOf(path) ==
  CASE path = "/proxy/v1/journals" -> "/v1/journals"
    [] path = "/proxy/v1/invoices" -> "/v1/invoices"
    [] OTHER -> path

searchParamsWithEmptyValues(query) == query

\* Object.entries(change.query).forEach(([key, value]) => {
\*   if (value) url.searchParams.append(key, value) })
searchParams(query) ==
  [k \in {x \in DOMAIN query : query[x] # ""} |-> query[k]]

\* fetch(url.toString(), {method: change.method, ...})
fetchRequest(change) ==
  [method |-> change.method, path |-> urlPathOf(change.path),
   query |-> searchParams(change.query)]

\* captureMiddleware with an x-changeset-id header: the INSERT of the row
\* with the data of the request
CaptureRequest(csid, method, path, query) ==
  /\ CanAccept
  /\ isWriteOperation(method)
  /\ nextChange < MaxChanges
  /\ changes' = IF ForeignKeyHolds(csid)
                THEN changes @@ (nextChange :> CapturedChange(csid, method, path, query))
                ELSE changes
  /\ nextChange' = IF ForeignKeyHolds(csid) THEN nextChange + 1 ELSE nextChange
  /\ resp' = IF ForeignKeyHolds(csid) THEN Captured ELSE CaptureFailed
  /\ UNCHANGED <<changesets, nextChangeset, handlers, sent, credentials, exec>>
  /\ requests' = requests + 1

\* POST /changes/:id/approve: the read; executeChange is given the row read
ApproveReadRow(id) ==
  /\ CanStart
  /\ IF id \notin DOMAIN changes
     THEN resp' = ChangeNotFound /\ handlers' = handlers
     ELSE IF IsResolved(id)
     THEN resp' = ChangeConflict /\ handlers' = handlers
     ELSE /\ resp' = NoResponse
          /\ handlers' = Start(
               IF credentials
               THEN Handler("approve", "issue", id, <<id>>, 1, changes[id], FALSE, NULL)
               ELSE Handler("approve", "write", id, <<id>>, 1, NoCredentials, FALSE, NULL))
  /\ UNCHANGED <<changes, changesets, nextChange, nextChangeset, sent, credentials, exec>>
  /\ requests' = requests + 1

\* executeChange: fetch sends the request built from the row it was given
IssueRequest(h) ==
  /\ h.kind = "approve" /\ h.pc = "issue"
  /\ sent' = [sent EXCEPT ![h.id] = @ + 1]
  /\ exec' = [exec EXCEPT !.request = fetchRequest(h.row)]
  /\ handlers' = Continue(h, [h EXCEPT !.pc = "await"])
  /\ resp' = NoResponse
  /\ UNCHANGED <<changes, changesets, nextChange, nextChangeset, credentials, requests>>

RecordNext ==
  \/ \E blank \in BOOLEAN : CreateChangeset(blank)
  \/ \E csid \in KnownChangesets, m \in WriteMethods, path \in Paths, query \in Queries :
       CaptureRequest(csid, m, path, query)
  \/ \E id \in KnownChanges : ApproveReadRow(id)
  \/ \E h \in InFlight : IssueRequest(h)
  \/ \E h \in InFlight, o \in Outcomes : Respond(h, o)
  \/ \E h \in InFlight : ApproveWrite(h)
  \/ \E id \in KnownChanges, r \in Reasons : RejectRead(id, r)
  \/ \E h \in InFlight : RejectWrite(h)
  \/ \E id \in KnownChanges : DeleteChange(id)
  \/ \E csid \in KnownChangesets, ids \in SUBSET (1..(nextChange - 1)) : AddChangesRead(csid, ids)
  \/ \E h \in InFlight : AddChangesMove(h)

RecordSpec == Init /\ [][RecordNext]_vars

\* no step changes the request data of a row that stays in the store
RequestDataKept ==
  \A c \in DOMAIN changes \cap DOMAIN changes' :
    RequestData(changes'[c]) = RequestData(changes[c])

\* the step is the fetch of an approval of the stored Change c
FetchOf(c) ==
  /\ c \in DOMAIN changes
  /\ sent'[c] = sent[c] + 1

\* C39 as stated: no step changes the method, path, query, headers or body of a
\* stored Change, and the request sent at approval has the captured method,
\* the captured path (as a path of the downstream API) and the captured query
\* parameters.
C39_ExecutedAsCaptured ==
  [][/\ RequestDataKept
     /\ \A c \in ChangeIds :
          FetchOf(c) =>
            /\ exec'.request.method = changes[c].method
            /\ exec'.request.path = urlPathOf(changes[c].path)
            /\ exec'.request.query = changes[c].query]_vars

\* the captured query parameters that have a value
WithValue(query) == [k \in {x \in DOMAIN query : query[x] # ""} |-> query[k]]

\* C39, amended: no step changes the method, path, query, headers or body of a
\* stored Change, and the request sent at approval has the captured method,
\* the captured path and those captured query parameters whose value is not
\* empty; a parameter captured with an empty value is left out.
C39_ExecutedAsCapturedWithoutEmptyParameters ==
  [][/\ RequestDataKept
     /\ \A c \in ChangeIds :
          FetchOf(c) =>
            /\ exec'.request.method = changes[c].method
            /\ exec'.request.path = urlPathOf(changes[c].path)
            /\ exec'.request.query = WithValue(changes[c].query)]_vars

\* a request has been sent for a Change captured with an empty parameter, and
\* the Change is approved
C39_Witness ==
  \E c \in DOMAIN changes :
    /\ sent[c] = 1
    /\ changes[c].query = [k \in QueryKeys |-> ""]
    /\ changes[c].status = "approved"
    /\ exec.request = [method |-> changes[c].method,
                       path |-> urlPathOf(changes[c].path), query |-> <<>>]

\* the step moves exactly the listed Changes to the Changeset csid
MovesExactly(ids, csid) ==
  /\ DOMAIN changes' = DOMAIN changes
  /\ \A c \in DOMAIN changes :
       IF c \in ids
       THEN changes'[c] = [changes[c] EXCEPT !.changesetId = csid]
       ELSE changes'[c] = changes[c]

\* C40: add-changes answers with success only when its target is stored and
\* pending; a refused call moves no Change; a successful one moves exactly the
\* listed Changes to the target and changes nothing else.
C40_AddChangesOnlyToPendingTarget ==
  [][IF requests' # requests
     THEN resp' \in {ChangeIdsRequired, TargetNotPending} => store' = store
     ELSE \A h \in InFlight :
            (h.kind = "addChanges" /\ Stepped(h))
            => /\ resp' \in {ChangesAdded, AddChangesFailed}
               /\ resp' = AddChangesFailed => store' = store
               /\ resp' = ChangesAdded =>
                    /\ h.id \in DOMAIN changesets
                    /\ changesets[h.id].status = "pending"
                    /\ changesets' = changesets
                    /\ MovesExactly(SeqSet(h.members), h.id)]_vars

====
